---- MODULE Spec2Model ----
(***************************************************************************)
(* A state-machine model of generate_jedi_catalog (generate_jedi_catalog.py)*)
(* the wrapper that builds the JEDI coronal-dimming catalog: one pass over *)
(* the GOES flare list, carrying the pre-flare irradiance from flare to    *)
(* flare, and appending one row per flare to a CSV file.                   *)
(*                                                                         *)
(* Times are whole minutes.  A value keeps the Python type that holds it:  *)
(* an astropy Time, the ISO string that Time.iso formats, or a pandas      *)
(* Timestamp, because the code mixes them (lines 234-248, 260).            *)
(* The external routines are functions of the data they are given; the     *)
(* data of one dimming window is abstracted to which channels are entirely *)
(* missing and to a variant number that decides the routines' results.     *)
(***************************************************************************)
EXTENDS Integers, Sequences, FiniteSets, TLC

\* ---------------------------------------------------------------- bounds
MaxFlares == 4       \* longest GOES flare list

\* ---------------------------------------------------------------- values
NaN == [kind |-> "NaN"]
None == [kind |-> "None"]
Unbound == [kind |-> "unbound"]                 \* a local never assigned
Time(t) == [kind |-> "Time", t |-> t]           \* astropy Time
Iso(tm) == [kind |-> "str", t |-> tm.t]         \* Time.iso: an ISO string
Timestamp(s) == [kind |-> "Timestamp", t |-> s.t]  \* pd.Timestamp(<iso>)
Bool(b) == [kind |-> "bool", b |-> b]
Str(s) == [kind |-> "text", s |-> s]
List(v) == [kind |-> "list", v |-> v]
\* what an external routine returned: which routine, for which flare, on
\* which column, from which data
Val(by, f, col, rv) == [kind |-> "val", by |-> by, flare |-> f, col |-> col, rv |-> rv]

\* ---------------------------------------------------------------- schema
\* eve_lines.columns: the channel labels, in order (line 111); two emission
\* lines stand for the 39 of the real data
eve_lines_columns == <<<<1>>, <<2>>>>
NumChannels == Len(eve_lines_columns)

\* itertools.permutations(eve_lines.columns.values, 2) (line 151)
ion_tuples ==
  [k \in 1..(NumChannels * (NumChannels - 1)) |->
     LET a == ((k - 1) \div (NumChannels - 1)) + 1
         r == ((k - 1) % (NumChannels - 1)) + 1
         b == IF r < a THEN r ELSE r + 1
     IN <<a, b>>]

\* Variant of ion_permutations: the derived series takes the label of the
\* channel it was computed from
ion_permutations_InPlace == [k \in DOMAIN ion_tuples |-> <<ion_tuples[k][1]>>]

\* ' by '.join(ion_tuples[i]) (line 152): the label of the derived series
ion_permutations == [k \in DOMAIN ion_tuples |-> <<ion_tuples[k][1], ion_tuples[k][2]>>]

Range(s) == {s[k] : k \in DOMAIN s}
ChannelLabels == Range(eve_lines_columns)
PairLabels == Range(ion_permutations)
Labels == ChannelLabels \cup PairLabels

ChannelFields == {"Slope Start Time", "Slope End Time", "Slope Min [%/s]", "Slope Max [%/s]",
                  "Slope Mean [%/s]", "Slope Uncertainty [%/s]", "Depth Time", "Depth [%]",
                  "Depth Uncertainty [%]", "Duration Start Time", "Duration End Time",
                  "Duration [s]", "Fitting Gamma", "Fitting Score"}
PairFields == ChannelFields \cup {"Correction Time Shift [s]", "Correction Scale Factor"}
FieldsOf(label) == IF label \in PairLabels THEN PairFields ELSE ChannelFields

\* The one-row frame built at lines 129-169: every cell NaN
JediRowTemplate ==
  [start |-> NaN, peak |-> NaN, class |-> NaN,
   pf_start |-> NaN, pf_end |-> NaN, interrupt |-> NaN,
   pf_irradiance |-> [c \in ChannelLabels |-> NaN],
   line |-> [l \in Labels |-> [f \in FieldsOf(l) |-> NaN]]]

\* The columns of a row, as to_csv writes them in the header
Column(label, field) == [label |-> label, field |-> field]
ColumnsOf(row) ==
  {Column(<<>>, f) : f \in {"GOES Flare Start Time", "GOES Flare Peak Time",
                            "GOES Flare Class", "Pre-Flare Start Time",
                            "Pre-Flare End Time", "Flare Interrupt"}}
  \cup {Column(c, "Pre-Flare Irradiance [W/m2]") : c \in DOMAIN row.pf_irradiance}
  \cup UNION {{Column(l, f) : f \in DOMAIN row.line[l]} : l \in DOMAIN row.line}

\* Variant of to_csv: every write truncates the file
to_csv_Truncating(file, frame, header, mode) ==
  (IF header THEN <<[kind |-> "header", columns |-> ColumnsOf(frame)]>> ELSE <<>>)
  \o <<[kind |-> "row", cells |-> frame]>>

\* DataFrame.to_csv (lines 172, 250, 443): with header=True the column line
\* and then every row of the frame; mode 'w' truncates, mode 'a' appends
to_csv(file, frame, header, mode) ==
  LET old == IF mode = "w" THEN <<>> ELSE file
      head == IF header THEN <<[kind |-> "header", columns |-> ColumnsOf(frame)]>> ELSE <<>>
  IN old \o head \o <<[kind |-> "row", cells |-> frame]>>

\* ---------------------------------------------------------------- state
VARIABLES
  goes_flare_events,     \* the flare list: peak_time, start_time, class
  threshold_time_prior_flare_minutes,
  dimming_window_relative_to_flare_minutes_left,
  dimming_window_relative_to_flare_minutes_right,
  threshold_minimum_dimming_window_minutes,
  verbose,
  pc,                    \* where the run is
  error,                 \* the exception that ended the run, or "none"
  flare_index,
  loop_i,                \* index of the inner loop in progress
  flare_interrupt,
  bracket_time_left,
  bracket_time_right,
  preflare_irradiance,
  preflare_window_start,
  preflare_window_end,
  jedi_row,
  csv_file,              \* the lines of the catalog file
  eve_window,            \* the EVE data of the current dimming window
  eve_lines_event,       \* columns of the per-event frame, in order
  calls                  \* external routines invoked for the current flare

config == <<threshold_time_prior_flare_minutes,
            dimming_window_relative_to_flare_minutes_left,
            dimming_window_relative_to_flare_minutes_right,
            threshold_minimum_dimming_window_minutes, verbose>>
inputs == <<goes_flare_events, config>>
carried == <<preflare_irradiance, preflare_window_start, preflare_window_end>>
window == <<flare_interrupt, bracket_time_left, bracket_time_right>>
vars == <<inputs, pc, error, flare_index, loop_i, window, carried,
          jedi_row, csv_file, eve_window, eve_lines_event, calls>>

num_flares == Len(goes_flare_events)          \* line 124
peak_time(i) == goes_flare_events[i + 1].peak_time    \* 0-based, as the code
start_time(i) == goes_flare_events[i + 1].start_time
class(i) == goes_flare_events[i + 1].class

\* ---------------------------------------------------------------- inputs
RECURSIVE PeaksFrom(_, _)
PeaksFrom(t, gaps) ==
  IF gaps = <<>> THEN <<t>>
  ELSE <<t>> \o PeaksFrom(t + Head(gaps), Tail(gaps))

\* Minutes between two consecutive flare peaks
GapChoices == {1, 2, 3}

\* Flare lists in ascending peak-time order
FlareLists ==
  {<<>>} \cup
  UNION {{ LET p == PeaksFrom(10, gaps)
           IN [k \in 1..n |-> [peak_time |-> Time(p[k]),
                               start_time |-> Time(p[k] - 1),
                               class |-> Str(<<"class", k - 1>>)]]
           : gaps \in [1..(n - 1) -> GapChoices] }
         : n \in 1..MaxFlares}

PriorFlareChoices == {2}
WindowLeftChoices == {-1, 0, 1}
WindowRightChoices == {1, 2}
MinimumWindowChoices == {2}

Init ==
  /\ goes_flare_events \in FlareLists
  /\ threshold_time_prior_flare_minutes \in PriorFlareChoices
  /\ dimming_window_relative_to_flare_minutes_left \in WindowLeftChoices
  /\ dimming_window_relative_to_flare_minutes_right \in WindowRightChoices
  /\ threshold_minimum_dimming_window_minutes \in MinimumWindowChoices
  /\ verbose \in BOOLEAN
  /\ pc = "setup"
  /\ error = "none"
  /\ flare_index = 0
  /\ loop_i = 0
  /\ flare_interrupt = Unbound
  /\ bracket_time_left = Unbound
  /\ bracket_time_right = Unbound
  /\ preflare_irradiance = Unbound
  /\ preflare_window_start = Unbound
  /\ preflare_window_end = Unbound
  /\ jedi_row = Unbound
  /\ csv_file = <<>>
  /\ eve_window = Unbound
  /\ eve_lines_event = <<>>
  /\ calls = <<>>

\* No exception has been raised: the function has no try statement, so
\* nothing runs after one
Running_Caught == TRUE

Running == error = "none"

\* Line 189 never taken
IsEventZero_Never(i) == FALSE

\* Line 189, `if flare_index == 0`
IsEventZero(i) == i = 0

\* A for loop that leaves out its last item
LoopExhausted_Early(i, n) == i >= n

\* Lines 272, 303, 329: the for loop has passed the last of its n items
LoopExhausted(i, n) == i > n

\* An exception propagates out of generate_jedi_catalog: the run is over,
\* pc stays at the step that raised
Raise(e) ==
  /\ pc' = pc
  /\ error' = e

\* ---------------------------------------------------------------- steps
\* Lines 71-183: load the inputs, define the row, create the catalog file
Setup ==
  /\ pc = "setup" /\ Running
  /\ jedi_row' = JediRowTemplate
  /\ csv_file' = to_csv(csv_file, JediRowTemplate, TRUE, "w")
  /\ preflare_irradiance' = None
  /\ flare_index' = 0
  /\ pc' = "loop"
  /\ UNCHANGED <<inputs, error, loop_i, window, preflare_window_start,
                 preflare_window_end, eve_window, eve_lines_event, calls>>

\* Line 186 with the range exhausted: the function returns
Finish ==
  /\ pc = "loop" /\ Running
  /\ flare_index >= num_flares
  /\ pc' = "done"
  /\ UNCHANGED <<inputs, error, flare_index, loop_i, window, carried,
                 jedi_row, csv_file, eve_window, eve_lines_event, calls>>

\* Lines 188-190: event 0 is skipped
SkipEventZero ==
  /\ pc = "loop" /\ Running
  /\ flare_index < num_flares
  /\ IsEventZero(flare_index)
  /\ flare_index' = flare_index + 1
  /\ UNCHANGED <<inputs, pc, error, loop_i, window, carried,
                 jedi_row, csv_file, eve_window, eve_lines_event, calls>>

\* Lines 192-200: reset the interrupt flag, fill the flare's details
StartFlare ==
  /\ pc = "loop" /\ Running
  /\ flare_index < num_flares
  /\ ~IsEventZero(flare_index)
  /\ flare_interrupt' = Bool(FALSE)
  /\ jedi_row' = [jedi_row EXCEPT !.start = Iso(start_time(flare_index)),
                                  !.peak = Iso(peak_time(flare_index)),
                                  !.class = class(flare_index)]
  /\ calls' = <<>>
  /\ pc' = "baseline"
  /\ UNCHANGED <<inputs, error, flare_index, loop_i, bracket_time_left,
                 bracket_time_right, carried, csv_file, eve_window, eve_lines_event>>

\* ------------------------------------------------ pre-flare irradiance
\* (a - b).sec / 60.0 for two astropy Times
MinutesBetween(a, b) == a.t - b.t

\* Variant of IsIndependent: every flare takes a new baseline
IsIndependent_Always(minutes_since_last_flare, threshold) == TRUE

\* Variant of IsIndependent: the comparison admits equality
IsIndependent_OrEqual(minutes_since_last_flare, threshold) ==
  minutes_since_last_flare >= threshold

\* Line 204: is the previous flare far enough back to take a new baseline
IsIndependent(minutes_since_last_flare, threshold) ==
  minutes_since_last_flare > threshold

\* Variant of PreflareWindow: the threshold is added, not subtracted
PreflareWindow_Added(peak, threshold) ==
  [start |-> Iso(Time(peak.t + threshold)), end |-> Iso(peak)]

\* Lines 206-207: the window the new baseline is taken from
PreflareWindow(peak, threshold) ==
  [start |-> Iso(Time(peak.t - threshold)), end |-> Iso(peak)]

\* determine_preflare_irradiance on one emission line (line 215)
determine_preflare_irradiance(f, col) ==
  Val("determine_preflare_irradiance", f, col, 0)

Call(routine, col, args) == [routine |-> routine, col |-> col, args |-> args]

\* Lines 224-227 left out: the row keeps the baseline cells it had
StoreBaseline_LeftOut(row, ws, we, irr) == row

\* Lines 224-227: the baseline and its window go into the row
StoreBaseline(row, ws, we, irr) ==
  [row EXCEPT !.pf_start = ws,
              !.pf_end = we,
              !.pf_irradiance = [c \in ChannelLabels |->
                                   irr.v[CHOOSE k \in 1..NumChannels : eve_lines_columns[k] = c]]]

\* Lines 219-224, the branch that keeps the carried baseline: how it ends
\* under verbose = v with the carried window start ws
ReuseOutcome(v, ws) ==
  IF ~v THEN "NameError"     \* line 220: logger is assigned only under verbose (line 73)
  ELSE IF ws = Unbound THEN "NameError"    \* line 224: no baseline window was ever set
  ELSE "none"

\* Lines 202-230
ResolveBaseline ==
  /\ pc = "baseline" /\ Running
  /\ LET minutes_since_last_flare ==
           MinutesBetween(peak_time(flare_index), peak_time(flare_index - 1))
         fresh == IsIndependent(minutes_since_last_flare, threshold_time_prior_flare_minutes)
         w == PreflareWindow(peak_time(flare_index), threshold_time_prior_flare_minutes)
         estimates == List([k \in 1..NumChannels |->
                              determine_preflare_irradiance(flare_index, eve_lines_columns[k])])
     IN IF fresh
        THEN \/ \* the estimator raises on some emission line
                /\ Raise("external")
                /\ preflare_window_start' = w.start
                /\ preflare_window_end' = w.end
                /\ preflare_irradiance' = List(<<>>)
                /\ calls' = calls \o <<Call("determine_preflare_irradiance",
                                            eve_lines_columns[1], <<w.start, w.end>>)>>
                /\ UNCHANGED jedi_row
             \/ /\ preflare_window_start' = w.start
                /\ preflare_window_end' = w.end
                /\ preflare_irradiance' = estimates
                /\ calls' = calls \o [k \in 1..NumChannels |->
                                        Call("determine_preflare_irradiance",
                                             eve_lines_columns[k], <<w.start, w.end>>)]
                /\ jedi_row' = StoreBaseline(jedi_row, w.start, w.end, estimates)
                /\ pc' = "bracket"
                /\ UNCHANGED error
        ELSE IF ReuseOutcome(verbose, preflare_window_start) # "none"
        THEN /\ Raise(ReuseOutcome(verbose, preflare_window_start))
             /\ UNCHANGED <<carried, calls, jedi_row>>
        ELSE /\ jedi_row' = StoreBaseline(jedi_row, preflare_window_start,
                                          preflare_window_end, preflare_irradiance)
             /\ pc' = "bracket"
             /\ UNCHANGED <<error, carried, calls>>
  /\ UNCHANGED <<inputs, flare_index, loop_i, window, csv_file,
                 eve_window, eve_lines_event>>

\* ------------------------------------------------------ dimming window
\* Line 233
BracketTimeLeft(peak, minutes_left) == Time(peak.t - minutes_left)

\* Line 235
UserChoiceTime(peak, minutes_right) == Time(peak.t + minutes_right)

\* Python's min(a, b): b if b < a, else a.  Time.__lt__ parses a string
\* operand, so the order is by time, and the result keeps its own type.
PyMin(a, b) == IF b.t < a.t THEN b ELSE a

\* Line 236
BracketTimeRight(next_flare_time, user_choice_time) ==
  PyMin(next_flare_time, user_choice_time)

\* Line 239: ==, between two strings or a Time and a string
IsInterrupted(right, next_flare_time) ==
  right.t = next_flare_time.t

\* Variant of TooShort: the comparison is inverted
TooShort_Inverted(window_minutes, minimum) == window_minutes > minimum

\* Line 248: is the window too short to search for dimming
TooShort(window_minutes, minimum) == window_minutes < minimum

\* The EVE data a dimming window can hold
WindowData == [missing : SUBSET ChannelLabels, rv : {1, 2}]

Series(missing, stage, f) == [missing |-> missing, stage |-> stage, flare |-> f]

\* Line 260: eve_lines[left:right], one series per emission line
Clip(data, f) ==
  [k \in 1..NumChannels |->
     [label |-> eve_lines_columns[k],
      series |-> Series(eve_lines_columns[k] \in data.missing, "irradiance", f),
      base |-> None]]

\* Lines 232-263
Bracket ==
  /\ pc = "bracket" /\ Running
  /\ LET left == BracketTimeLeft(peak_time(flare_index),
                                 dimming_window_relative_to_flare_minutes_left)
     IN IF flare_index + 1 >= num_flares
        THEN \* line 234: there is no flare after the last one
             /\ Raise("IndexError")
             /\ bracket_time_left' = left
             /\ UNCHANGED <<flare_index, flare_interrupt, bracket_time_right, jedi_row,
                            csv_file, eve_window, eve_lines_event>>
        ELSE LET next_flare_time == Iso(peak_time(flare_index + 1))
                 user_choice_time ==
                   UserChoiceTime(peak_time(flare_index),
                                  dimming_window_relative_to_flare_minutes_right)
                 right == BracketTimeRight(next_flare_time, user_choice_time)
                 interrupted == IsInterrupted(right, next_flare_time)
                 row == [jedi_row EXCEPT !.interrupt = Bool(interrupted)]
             IN /\ bracket_time_left' = left
                /\ bracket_time_right' = right
                /\ flare_interrupt' = Bool(interrupted)
                /\ jedi_row' = row
                /\ IF right.kind # "Time"
                   THEN \* line 248: a str minus a Time
                        /\ Raise("TypeError")
                        /\ UNCHANGED <<flare_index, csv_file, eve_window, eve_lines_event>>
                   ELSE IF TooShort(MinutesBetween(right, left),
                                    threshold_minimum_dimming_window_minutes)
                   THEN /\ csv_file' = to_csv(csv_file, row, FALSE, "a")
                        /\ flare_index' = flare_index + 1
                        /\ pc' = "loop"
                        /\ UNCHANGED <<error, eve_window, eve_lines_event>>
                   ELSE /\ \E data \in WindowData :
                             /\ eve_window' = data
                             /\ eve_lines_event' = Clip(data, flare_index)
                        /\ pc' = "normalize"
                        /\ UNCHANGED <<error, flare_index, csv_file>>
  /\ UNCHANGED <<inputs, loop_i, carried, calls>>

\* ------------------------------------------------- per-event frame
HasColumn(frame, label) == \E k \in DOMAIN frame : frame[k].label = label
ColumnAt(frame, label) == CHOOSE k \in DOMAIN frame : frame[k].label = label
SeriesOf(frame, label) == frame[ColumnAt(frame, label)].series

\* frame[label] = series on a copy of the frame: the frame stays as it was
SetColumn_OnCopy(frame, label, series) == frame

\* frame[label] = series: replaces the column, or adds it at the end
SetColumn(frame, label, series) ==
  IF HasColumn(frame, label)
  THEN [frame EXCEPT ![ColumnAt(frame, label)].series = series]
  ELSE Append(frame, [label |-> label, series |-> series, base |-> None])

\* Line 267: (frame - preflare_irradiance) / preflare_irradiance * 100.0,
\* the k-th baseline applied to the k-th column
ToPercent(frame, irr) ==
  [k \in DOMAIN frame |->
     [frame[k] EXCEPT !.series = Series(frame[k].series.missing, "percent",
                                        frame[k].series.flare),
                      !.base = irr.v[k]]]

\* Lines 265-269
Normalize ==
  /\ pc = "normalize" /\ Running
  /\ eve_lines_event' = ToPercent(eve_lines_event, preflare_irradiance)
  /\ loop_i' = 1
  /\ pc' = "correct"
  /\ UNCHANGED <<inputs, error, flare_index, window, carried, jedi_row,
                 csv_file, eve_window, calls>>

\* Series.isnull().all().all()
AllNull(series) == series.missing

\* DataFrame.__setitem__ on the one-row frame, jedi_row[label + ' ' + field] = value:
\* an existing column is overwritten, any other name becomes a new column
SetItem(row, label, field, value) ==
  LET old == IF label \in DOMAIN row.line THEN row.line[label] ELSE [f \in {} |-> NaN]
      new == [f \in DOMAIN old \cup {field} |-> IF f = field THEN value ELSE old[f]]
  IN  [row EXCEPT !.line = [l \in DOMAIN row.line \cup {label} |->
                              IF l = label THEN new ELSE row.line[l]]]

\* Lines 289-290 with the label reversed, 'B by A' for 'A by B'
StoreCorrection_Reversed(row, label, seconds_shift, scale_factor) ==
  SetItem(SetItem(row, <<label[2], label[1]>>, "Correction Time Shift [s]", seconds_shift),
          <<label[2], label[1]>>, "Correction Scale Factor", scale_factor)

\* Lines 289-290
StoreCorrection(row, label, seconds_shift, scale_factor) ==
  SetItem(SetItem(row, label, "Correction Time Shift [s]", seconds_shift),
          label, "Correction Scale Factor", scale_factor)

\* Lines 273-276: the values of one column of the frame, as a frame of its
\* own with the column renamed 'irradiance'
Irradiance(frame, label) == [of |-> label, irradiance |-> SeriesOf(frame, label)]

\* Lines 272-295, one pass of the loop over ion_tuples
Correct ==
  /\ pc = "correct" /\ Running
  /\ ~LoopExhausted(loop_i, Len(ion_tuples))
  /\ LET label == ion_permutations[loop_i]
         light_curve_to_subtract_from == SeriesOf(eve_lines_event, <<ion_tuples[loop_i][1]>>)
         light_curve_to_subtract_with == SeriesOf(eve_lines_event, <<ion_tuples[loop_i][2]>>)
         call == Call("light_curve_peak_match_subtract", label,
                      <<Irradiance(eve_lines_event, <<ion_tuples[loop_i][1]>>),
                        Irradiance(eve_lines_event, <<ion_tuples[loop_i][2]>>),
                        Timestamp(Iso(peak_time(flare_index)))>>)
     IN IF AllNull(light_curve_to_subtract_from) \/ AllNull(light_curve_to_subtract_with)
        THEN /\ loop_i' = loop_i + 1
             /\ UNCHANGED <<pc, error, jedi_row, eve_lines_event, calls>>
        ELSE /\ calls' = Append(calls, call)
             /\ \/ /\ Raise("external")
                   /\ UNCHANGED <<loop_i, jedi_row, eve_lines_event>>
                \/ /\ eve_lines_event' =
                        SetColumn(eve_lines_event, label,
                                  Series(FALSE, "corrected", flare_index))
                   /\ jedi_row' =
                        StoreCorrection(jedi_row, label,
                                        Val("seconds_shift", flare_index, label, eve_window.rv),
                                        Val("scale_factor", flare_index, label, eve_window.rv))
                   /\ loop_i' = loop_i + 1
                   /\ UNCHANGED <<pc, error>>
  /\ UNCHANGED <<inputs, flare_index, window, carried, csv_file, eve_window>>

\* Line 272 with the pairs exhausted: on to the fitting loop (line 303)
CorrectDone ==
  /\ pc = "correct" /\ Running
  /\ LoopExhausted(loop_i, Len(ion_tuples))
  /\ loop_i' = 1
  /\ pc' = "fit"
  /\ UNCHANGED <<inputs, error, flare_index, window, carried, jedi_row,
                 csv_file, eve_window, eve_lines_event, calls>>

\* Lines 322-323
StoreFit(row, label, best_fit_gamma, best_fit_score) ==
  SetItem(SetItem(row, label, "Fitting Gamma", best_fit_gamma),
          label, "Fitting Score", best_fit_score)

\* Lines 303-326, one pass of the loop over the frame's columns
Fit ==
  /\ pc = "fit" /\ Running
  /\ ~LoopExhausted(loop_i, Len(eve_lines_event))
  /\ LET column == eve_lines_event[loop_i].label
         series == eve_lines_event[loop_i].series
     IN IF AllNull(series)
        THEN /\ loop_i' = loop_i + 1
             /\ UNCHANGED <<pc, error, jedi_row, eve_lines_event, calls>>
        ELSE /\ calls' = Append(calls, Call("automatic_fit_coronal_dimming_light_curve",
                                            column, <<series>>))
             /\ \/ /\ Raise("external")
                   /\ UNCHANGED <<loop_i, jedi_row, eve_lines_event>>
                \/ /\ eve_lines_event' =
                        SetColumn(eve_lines_event, column,
                                  Series(FALSE, "fitted", flare_index))
                   /\ jedi_row' =
                        StoreFit(jedi_row, column,
                                 Val("best_fit_gamma", flare_index, column, eve_window.rv),
                                 Val("best_fit_score", flare_index, column, eve_window.rv))
                   /\ loop_i' = loop_i + 1
                   /\ UNCHANGED <<pc, error>>
  /\ UNCHANGED <<inputs, flare_index, window, carried, csv_file, eve_window>>

\* Line 303 with the columns exhausted: on to the parameterization (line 329)
FitDone ==
  /\ pc = "fit" /\ Running
  /\ LoopExhausted(loop_i, Len(eve_lines_event))
  /\ loop_i' = 1
  /\ pc' = "parameterize"
  /\ UNCHANGED <<inputs, error, flare_index, window, carried, jedi_row,
                 csv_file, eve_window, eve_lines_event, calls>>

\* determine_dimming_depth's depth_time: undefined when no dimming is found
DepthTime(f, rv) == IF rv = 1 THEN [kind |-> "Timestamp", t |-> peak_time(f).t + 1] ELSE None

\* Lines 356-357 with the two bounds exchanged
SlopeBounds_Exchanged(peak, depth_time) ==
  [slope_start_time |-> depth_time,
   slope_end_time |-> Timestamp(Iso(peak))]

\* Lines 356-357: the slope is looked for between the flare's peak and the
\* time of the depth just found
SlopeBounds(peak, depth_time) ==
  [slope_start_time |-> Timestamp(Iso(peak)),
   slope_end_time |-> depth_time]

\* Lines 347-349
StoreDepth(row, column, depth_percent, depth_time) ==
  SetItem(SetItem(row, column, "Depth [%]", depth_percent),
          column, "Depth Time", depth_time)

\* Lines 366-371 with line 369 active: it names ' Slope Uncertainty [%]',
\* where the frame has ' Slope Uncertainty [%/s]'
StoreSlope_WithUncertainty(row, column, slope, slope_start_time, slope_end_time) ==
  SetItem(SetItem(SetItem(SetItem(SetItem(SetItem(row,
    column, "Slope Min [%/s]", slope[1]),
    column, "Slope Max [%/s]", slope[2]),
    column, "Slope Mean [%/s]", slope[3]),
    column, "Slope Uncertainty [%]", NaN),
    column, "Slope Start Time", slope_start_time),
    column, "Slope End Time", slope_end_time)

\* Lines 366-371
StoreSlope(row, column, slope, slope_start_time, slope_end_time) ==
  SetItem(SetItem(SetItem(SetItem(SetItem(row,
    column, "Slope Min [%/s]", slope[1]),
    column, "Slope Max [%/s]", slope[2]),
    column, "Slope Mean [%/s]", slope[3]),
    column, "Slope Start Time", slope_start_time),
    column, "Slope End Time", slope_end_time)

\* Lines 384-386
StoreDuration(row, column, duration) ==
  SetItem(SetItem(SetItem(row,
    column, "Duration [s]", duration[1]),
    column, "Duration Start Time", duration[2]),
    column, "Duration End Time", duration[3])

\* Lines 329-440, one pass of the loop over the frame's columns
Parameterize ==
  /\ pc = "parameterize" /\ Running
  /\ ~LoopExhausted(loop_i, Len(eve_lines_event))
  /\ LET column == eve_lines_event[loop_i].label
         series == eve_lines_event[loop_i].series
         rv == eve_window.rv
         depth_percent == Val("depth_percent", flare_index, column, rv)
         depth_time == DepthTime(flare_index, rv)
         slope_start_time == SlopeBounds(peak_time(flare_index), depth_time).slope_start_time
         slope_end_time == SlopeBounds(peak_time(flare_index), depth_time).slope_end_time
         slope == <<Val("slope_min", flare_index, column, rv),
                    Val("slope_max", flare_index, column, rv),
                    Val("slope_mean", flare_index, column, rv)>>
         duration == <<Val("duration_seconds", flare_index, column, rv),
                       Val("duration_start_time", flare_index, column, rv),
                       Val("duration_end_time", flare_index, column, rv)>>
         depth_call == Call("determine_dimming_depth", column, <<series>>)
         slope_call == Call("determine_dimming_slope", column,
                            <<series, slope_start_time, slope_end_time>>)
         duration_call == Call("determine_dimming_duration", column,
                               <<series, slope_start_time>>)
         row1 == StoreDepth(jedi_row, column, depth_percent, depth_time)
         row2 == StoreSlope(row1, column, slope, slope_start_time, slope_end_time)
         row3 == StoreDuration(row2, column, duration)
     IN IF AllNull(series)
        THEN /\ loop_i' = loop_i + 1
             /\ UNCHANGED <<pc, error, jedi_row, calls>>
        ELSE \/ /\ Raise("external")      \* determine_dimming_depth raises
                /\ calls' = calls \o <<depth_call>>
                /\ UNCHANGED <<loop_i, jedi_row>>
             \/ /\ Raise("external")      \* determine_dimming_slope raises
                /\ calls' = calls \o <<depth_call, slope_call>>
                /\ jedi_row' = row1
                /\ UNCHANGED loop_i
             \/ /\ Raise("external")      \* determine_dimming_duration raises
                /\ calls' = calls \o <<depth_call, slope_call, duration_call>>
                /\ jedi_row' = row2
                /\ UNCHANGED loop_i
             \/ /\ calls' = calls \o <<depth_call, slope_call, duration_call>>
                /\ jedi_row' = row3
                /\ loop_i' = loop_i + 1
                /\ UNCHANGED <<pc, error>>
  /\ UNCHANGED <<inputs, flare_index, window, carried, csv_file,
                 eve_window, eve_lines_event>>

\* Lines 442-445, then the next pass of the loop over the flares
WriteRow ==
  /\ pc = "parameterize" /\ Running
  /\ LoopExhausted(loop_i, Len(eve_lines_event))
  /\ csv_file' = to_csv(csv_file, jedi_row, FALSE, "a")
  /\ flare_index' = flare_index + 1
  /\ pc' = "loop"
  /\ UNCHANGED <<inputs, error, loop_i, window, carried, jedi_row,
                 eve_window, eve_lines_event, calls>>

Next ==
  \/ Setup
  \/ Finish
  \/ SkipEventZero
  \/ StartFlare
  \/ ResolveBaseline
  \/ Bracket
  \/ Normalize
  \/ Correct
  \/ CorrectDone
  \/ Fit
  \/ FitDone
  \/ Parameterize
  \/ WriteRow

Spec == Init /\ [][Next]_vars

\* ================================================================ claims
Min(a, b) == IF a <= b THEN a ELSE b
Gap(i) == peak_time(i).t - peak_time(i - 1).t
FlareIndices == 1..(num_flares - 1)
IsFlareRow(line, i) == line.kind = "row" /\ line.cells.peak = Iso(peak_time(i))
\* the lines of the catalog file that carry flare i's details
RowsOfFlare(i) == {k \in DOMAIN csv_file : IsFlareRow(csv_file[k], i)}
Normalized == pc \in {"correct", "fit", "parameterize"}
MetricsMissing(row, label) == \A f \in FieldsOf(label) : row.line[label][f] = NaN
FullyProcessedRow(row) == \E l \in ChannelLabels : row.line[l]["Fitting Gamma"] # NaN

\* flares far enough apart that each takes a new baseline and none cuts the
\* window of the one before
WellSeparated ==
  \A i \in FlareIndices :
    /\ Gap(i) > threshold_time_prior_flare_minutes
    /\ Gap(i) > dimming_window_relative_to_flare_minutes_right

\* C1 (as stated, on lists of well separated flares): when the run is over, no
\* external routine having failed, every flare 1..n-1 of a list of n >= 2
\* flares, the last one included, has exactly one row in the catalog file.
C1_EveryFlareHasOneRow ==
  (num_flares >= 2 /\ WellSeparated /\ (pc = "done" \/ error \notin {"none", "external"}))
    => \A i \in FlareIndices : Cardinality(RowsOfFlare(i)) = 1

\* C2: a flare whose gap to the previous peak is at most the threshold (equality
\* included) is written, and normalized, with exactly the baseline values of
\* the previous flare; a flare whose gap is greater gets, on every channel, the
\* estimate made for this flare.
C2_BaselineReusedOrFresh ==
  /\ \A i \in FlareIndices : \A k \in RowsOfFlare(i) :
        IF Gap(i) <= threshold_time_prior_flare_minutes
        THEN /\ RowsOfFlare(i - 1) # {}
             /\ \A j \in RowsOfFlare(i - 1) :
                   csv_file[k].cells.pf_irradiance = csv_file[j].cells.pf_irradiance
        ELSE \A c \in ChannelLabels :
               csv_file[k].cells.pf_irradiance[c] = Val("determine_preflare_irradiance", i, c, 0)
  /\ Normalized =>
        \A k \in 1..NumChannels :
          IF Gap(flare_index) <= threshold_time_prior_flare_minutes
          THEN \A j \in RowsOfFlare(flare_index - 1) :
                 eve_lines_event[k].base = csv_file[j].cells.pf_irradiance[eve_lines_columns[k]]
          ELSE eve_lines_event[k].base =
                 Val("determine_preflare_irradiance", flare_index, eve_lines_columns[k], 0)

\* C2 witness: a fully processed flare that reused the baseline has its row
C2_Witness ==
  \E i \in FlareIndices : \E k \in RowsOfFlare(i) :
    /\ Gap(i) <= threshold_time_prior_flare_minutes
    /\ FullyProcessedRow(csv_file[k].cells)

\* the processing of flare i ended at or after the window bracketing, with no
\* external routine failing in it
WindowEnded(i) ==
  flare_index > i \/ (flare_index = i /\ pc = "bracket" /\ error # "none")

\* C3 (as stated): a flare that has a next flare gets the right bound
\* min(next peak, peak + right offset), and its row carries Flare Interrupt
\* true if and only if that bound is the next peak, a tie included.
C3_InterruptFlagInRow ==
  \A i \in 1..(num_flares - 2) :
    LET bound == Min(peak_time(i + 1).t,
                     peak_time(i).t + dimming_window_relative_to_flare_minutes_right)
    IN /\ (flare_index = i /\ Normalized) => bracket_time_right.t = bound
       /\ WindowEnded(i) =>
            \E k \in RowsOfFlare(i) :
              csv_file[k].cells.interrupt = Bool(bound = peak_time(i + 1).t)

\* the window of flare i in minutes, as lines 233-236 and 248 compute it
WindowMinutes(i) ==
  Min(peak_time(i + 1).t, peak_time(i).t + dimming_window_relative_to_flare_minutes_right)
  - (peak_time(i).t - dimming_window_relative_to_flare_minutes_left)

C5_ReuseHasBaseline ==
  (pc = "baseline" /\ Gap(flare_index) <= threshold_time_prior_flare_minutes)
    => /\ preflare_window_start # Unbound
       /\ preflare_window_end # Unbound
       /\ preflare_irradiance.kind = "list"
       /\ error = "none"

\* C6 (as stated): the left bound of a processed flare's window is the peak
\* time plus the left offset, so a negative offset puts it before the peak.
C6_LeftBoundIsPeakPlusOffset ==
  Normalized =>
    bracket_time_left =
      Time(peak_time(flare_index).t + dimming_window_relative_to_flare_minutes_left)

\* the latest flare up to i whose baseline is recomputed
Recomputed(j) == Gap(j) > threshold_time_prior_flare_minutes
LastRecomputed(i) ==
  CHOOSE j \in 1..i : Recomputed(j) /\ \A m \in (j + 1)..i : ~Recomputed(m)

\* C7: the baseline window in a flare's row is [peak - threshold, peak] of the
\* latest flare, this one included, whose baseline was recomputed.
C7_BaselineWindowInRow ==
  \A i \in FlareIndices : \A k \in RowsOfFlare(i) :
    /\ \E j \in 1..i : Recomputed(j)
    /\ LET j == LastRecomputed(i)
       IN /\ csv_file[k].cells.pf_start =
               Iso(Time(peak_time(j).t - threshold_time_prior_flare_minutes))
          /\ csv_file[k].cells.pf_end = Iso(peak_time(j))

\* C7 witness: a row written in the reuse branch, its window that of an
\* earlier flare
C7_Witness ==
  \E i \in FlareIndices : \E k \in RowsOfFlare(i) :
    /\ ~Recomputed(i)
    /\ csv_file[k].cells.pf_end # csv_file[k].cells.peak
    /\ csv_file[k].cells.pf_end = Iso(peak_time(i - 1))

FlaresFinished == IF flare_index = 0 THEN 0 ELSE flare_index - 1
HeaderLines == {k \in DOMAIN csv_file : csv_file[k].kind = "header"}
DataLines == {k \in DOMAIN csv_file : csv_file[k].kind = "row"}

\* C8 (as stated): the file is one header followed by one data row per flare
\* whose processing has finished, so it has no data row before the first flare.
C8_HeaderThenOneRowPerFlare ==
  pc # "setup" =>
    /\ HeaderLines = {1}
    /\ Cardinality(DataLines) = FlaresFinished

IsPrefix(s, t) == Len(s) <= Len(t) /\ \A k \in 1..Len(s) : s[k] = t[k]
FlareOfLine(line) == CHOOSE i \in 0..(num_flares - 1) : IsFlareRow(line, i)
CarriesFlare(line) == \E i \in 0..(num_flares - 1) : IsFlareRow(line, i)
Ascending(file) ==
  \A j, k \in DOMAIN file :
    (j < k /\ CarriesFlare(file[j]) /\ CarriesFlare(file[k]))
      => FlareOfLine(file[j]) < FlareOfLine(file[k])

\* C9: every step leaves the lines already in the file as they are (the old
\* content is a prefix of the new), and the rows' flares are in strictly
\* ascending index order.
C9_AppendOnlyAscending ==
  [][IsPrefix(csv_file, csv_file') /\ Ascending(csv_file')]_vars

\* C9 witness: the file holds the rows of two flares
C9_Witness ==
  \E i, j \in FlareIndices : i < j /\ RowsOfFlare(i) # {} /\ RowsOfFlare(j) # {}

\* is the input of a channel, or of one side of a pair, entirely missing
InputMissing(label) ==
  \E k \in 1..Len(label) : <<label[k]>> \in eve_window.missing

\* C10 (as stated): in the row about to be appended for a fully processed
\* flare, a channel or pair whose input series is entirely missing has all its
\* fields missing, whatever earlier flares produced.
C10_MissingInputLeavesFieldsMissing ==
  (pc = "parameterize" /\ loop_i > Len(eve_lines_event) /\ error = "none")
    => \A l \in Labels : InputMissing(l) => MetricsMissing(jedi_row, l)

\* C11: the columns of the catalog are fixed before the loop: the row being
\* filled keeps exactly the columns it was defined with, through every stage,
\* and the header and every data row of the file have exactly those columns.
C11_SchemaFixed ==
  pc # "setup" =>
    /\ csv_file[1].kind = "header"
    /\ csv_file[1].columns = ColumnsOf(JediRowTemplate)
    /\ ColumnsOf(jedi_row) = csv_file[1].columns
    /\ \A k \in DataLines : ColumnsOf(csv_file[k].cells) = csv_file[1].columns

\* a row that went through correction, fit and parameterization is in the file
C11_Witness ==
  \E k \in DataLines : \E p \in PairLabels :
    /\ csv_file[k].cells.line[p]["Correction Scale Factor"] # NaN
    /\ csv_file[k].cells.line[p]["Fitting Score"] # NaN
    /\ csv_file[k].cells.line[p]["Slope End Time"] # NaN
    /\ csv_file[k].cells.line[p]["Duration [s]"] # NaN

\* C12: in the parameterization of a flare, every call of the slope finder
\* comes right after the depth finder's call for the same series, with the
\* flare's peak time as earliest bound and the depth time just stored for that
\* series as latest bound; every call of the duration finder comes right after
\* that slope call with the slope's earliest bound as its own, and the row's
\* Slope Start Time and Slope End Time are the two bounds the slope call used.
C12_BoundsChained ==
  pc = "parameterize" =>
    \A k \in DOMAIN calls :
      /\ calls[k].routine = "determine_dimming_slope" =>
           /\ k > 1
           /\ calls[k - 1].routine = "determine_dimming_depth"
           /\ calls[k - 1].col = calls[k].col
           /\ calls[k - 1].args[1] = calls[k].args[1]
           /\ calls[k].args[2] = Timestamp(Iso(peak_time(flare_index)))
           /\ calls[k].args[3] = jedi_row.line[calls[k].col]["Depth Time"]
      /\ calls[k].routine = "determine_dimming_duration" =>
           /\ k > 1
           /\ calls[k - 1].routine = "determine_dimming_slope"
           /\ calls[k - 1].col = calls[k].col
           /\ calls[k - 1].args[1] = calls[k].args[1]
           /\ calls[k].args[2] = calls[k - 1].args[2]
           /\ jedi_row.line[calls[k].col]["Slope Start Time"] = calls[k - 1].args[2]
           /\ jedi_row.line[calls[k].col]["Slope End Time"] = calls[k - 1].args[3]

\* a pair series with a depth time has had its slope and duration looked for
C12_Witness ==
  /\ pc = "parameterize"
  /\ \E k \in DOMAIN calls :
       /\ calls[k].routine = "determine_dimming_duration"
       /\ calls[k].col \in PairLabels
       /\ jedi_row.line[calls[k].col]["Slope End Time"].kind = "Timestamp"
       /\ jedi_row.line[calls[k].col]["Duration [s]"].kind = "val"

\* C13: once the corrections of a flare are done, every ordered pair (A, B)
\* whose two windowed series both have data has had the correction routine
\* called exactly once, with A's series, B's series and the flare's peak time;
\* the corrected series is a column 'A by B' of the windowed frame, a label
\* that is neither a channel's nor that of (B, A); the row's 'A by B' shift and
\* scale are the ones returned for (A, B); no channel's series was replaced and
\* no channel has correction columns. A pair with a side entirely missing has
\* no call.
C13_PairCorrectedOnceUnderOwnLabel ==
  pc \in {"fit", "parameterize"} =>
    /\ \A k \in DOMAIN ion_tuples :
         LET A == <<ion_tuples[k][1]>>
             B == <<ion_tuples[k][2]>>
             AbyB == <<ion_tuples[k][1], ion_tuples[k][2]>>
             BbyA == <<ion_tuples[k][2], ion_tuples[k][1]>>
             invoked == {j \in DOMAIN calls :
                           /\ calls[j].routine = "light_curve_peak_match_subtract"
                           /\ calls[j].args[1].of = A
                           /\ calls[j].args[2].of = B}
         IN IF A \in eve_window.missing \/ B \in eve_window.missing
            THEN invoked = {}
            ELSE /\ Cardinality(invoked) = 1
                 /\ \A j \in invoked :
                      calls[j].args[3] = Timestamp(Iso(peak_time(flare_index)))
                 /\ HasColumn(eve_lines_event, AbyB)
                 /\ AbyB \notin ChannelLabels
                 /\ AbyB # BbyA
                 /\ jedi_row.line[AbyB]["Correction Time Shift [s]"] =
                      Val("seconds_shift", flare_index, AbyB, eve_window.rv)
                 /\ jedi_row.line[AbyB]["Correction Scale Factor"] =
                      Val("scale_factor", flare_index, AbyB, eve_window.rv)
    /\ \A c \in ChannelLabels :
         /\ SeriesOf(eve_lines_event, c).stage # "corrected"
         /\ DOMAIN jedi_row.line[c] = ChannelFields

\* both directions of a pair have been corrected for one flare
C13_Witness ==
  /\ pc = "fit"
  /\ \E a, b \in ChannelLabels :
       /\ a # b
       /\ jedi_row.line[<<a[1], b[1]>>]["Correction Scale Factor"] =
            Val("scale_factor", flare_index, <<a[1], b[1]>>, eve_window.rv)
       /\ jedi_row.line[<<b[1], a[1]>>]["Correction Scale Factor"] =
            Val("scale_factor", flare_index, <<b[1], a[1]>>, eve_window.rv)

\* the file has no row of flare i or of a later flare
NoRowFrom(file, i) ==
  \A k \in DOMAIN file : \A j \in i..(num_flares - 1) : ~IsFlareRow(file[k], j)

\* C14: the step in which an external routine fails while flare i is processed
\* appends nothing, no step after it changes the file, and the file has no row
\* of flare i or of a later flare: the rows of the earlier flares stay as they
\* were.
C14_FailureStopsTheRun ==
  [][(error = "external" \/ error' = "external") =>
       /\ csv_file' = csv_file
       /\ flare_index' = flare_index
       /\ NoRowFrom(csv_file', flare_index')]_vars

\* an external routine failed in a flare that follows one with a row
C14_Witness ==
  /\ error = "external"
  /\ flare_index >= 2
  /\ RowsOfFlare(flare_index - 1) # {}

C16_EventZeroSkipped ==
  /\ pc \in {"baseline", "bracket", "normalize", "correct", "fit", "parameterize"}
       => flare_index >= 1
  /\ (pc # "setup" /\ flare_index = 0) =>
       /\ calls = <<>>
       /\ preflare_irradiance = None
       /\ preflare_window_start = Unbound
       /\ preflare_window_end = Unbound
       /\ jedi_row = JediRowTemplate
  /\ (pc # "setup" /\ num_flares >= 1) =>
       /\ RowsOfFlare(0) = {}
       /\ jedi_row.peak # Iso(peak_time(0))
       /\ jedi_row.start # Iso(goes_flare_events[1].start_time)

\* the first flare the stages ran for, index 1, has its row in the file
C16_Witness ==
  /\ flare_index = 2
  /\ pc = "loop"
  /\ RowsOfFlare(1) # {}
  /\ \A k \in RowsOfFlare(1) : k = 3

\* C17 (as stated): with an empty flare list the run does not complete
\* normally: it never returns having written only what line 172 writes.
C17_EmptyFlareListFails ==
  num_flares = 0 => pc # "done"

\* C18 (as stated): nothing but the baseline is carried from one flare to the
\* next, so every routine result in the channel and pair columns of a flare's
\* row was returned for that flare, none for an earlier one.
C18_RowHoldsOwnResultsOnly ==
  \A i \in FlareIndices : \A k \in RowsOfFlare(i) :
    \A l \in Labels : \A f \in FieldsOf(l) :
      csv_file[k].cells.line[l][f].kind = "val"
        => csv_file[k].cells.line[l][f].flare = i

\* the place of an external routine in the order of the stages
StageRank(routine) ==
  CASE routine = "determine_preflare_irradiance" -> 1
    [] routine = "light_curve_peak_match_subtract" -> 2
    [] routine = "automatic_fit_coronal_dimming_light_curve" -> 3
    [] OTHER -> 4
\* the columns of the windowed frame that have data: channels, then pairs
HasData(label) == \A k \in 1..Len(label) : <<label[k]>> \notin eve_window.missing
Called(log, routine, label) ==
  \E k \in DOMAIN log : log[k].routine = routine /\ log[k].col = label
StageOrder ==
  {<<"setup", "loop">>, <<"loop", "baseline">>, <<"loop", "done">>,
   <<"baseline", "bracket">>, <<"bracket", "normalize">>, <<"bracket", "loop">>,
   <<"normalize", "correct">>, <<"correct", "fit">>, <<"fit", "parameterize">>,
   <<"parameterize", "loop">>}

\* C19: the stages of a flare run in the order baseline, window, normalization,
\* correction, fit, parameterization, row: the routines are called in that
\* order; the fits start only when every pair with data has been corrected, the
\* parameterizations only when every column with data has been fitted, and the
\* row is appended only when every column with data has been parameterized;
\* the loop moves on to the next flare only in the step that appends this
\* flare's row, and a flare's stages start only with the previous flare's row
\* in the file.
C19_StagesInOrder ==
  [][/\ \A j, k \in DOMAIN calls' :
          j < k => StageRank(calls'[j].routine) <= StageRank(calls'[k].routine)
     /\ pc' # pc => <<pc, pc'>> \in StageOrder
     /\ (pc = "correct" /\ pc' = "fit") =>
          \A p \in PairLabels :
            HasData(p) => Called(calls, "light_curve_peak_match_subtract", p)
     /\ (pc = "fit" /\ pc' = "parameterize") =>
          \A l \in Labels :
            HasData(l) => Called(calls, "automatic_fit_coronal_dimming_light_curve", l)
     /\ (pc = "parameterize" /\ pc' = "loop") =>
          \A l \in Labels :
            HasData(l) => Called(calls, "determine_dimming_duration", l)
     /\ (flare_index >= 1 /\ flare_index' # flare_index) =>
          /\ flare_index' = flare_index + 1
          /\ Len(csv_file') = Len(csv_file) + 1
          /\ IsFlareRow(csv_file'[Len(csv_file')], flare_index)
     /\ (pc' = "baseline" /\ pc # "baseline" /\ flare_index' >= 2) =>
          RowsOfFlare(flare_index' - 1) # {}
    ]_vars

\* a second flare is in its parameterization, every column of the first one
\* having been corrected, fitted and parameterized before its row was appended
C19_Witness ==
  /\ pc = "parameterize"
  /\ flare_index = 2
  /\ Called(calls, "determine_preflare_irradiance", <<1>>)
  /\ Called(calls, "determine_dimming_depth", <<2, 1>>)
  /\ \E k \in RowsOfFlare(1) :
       \A l \in Labels : csv_file[k].cells.line[l]["Duration [s]"].kind = "val"

\* C20: after the initialization at line 183, a step changes the carried
\* baseline values or its window bounds only if it is the baseline resolver
\* at a flare whose gap to the previous one is above the threshold.
C20_BaselineChangesOnlyOnRecompute ==
  [][(pc # "setup" /\ carried' # carried) =>
       /\ pc = "baseline"
       /\ Gap(flare_index) > threshold_time_prior_flare_minutes
       /\ preflare_window_end' = Iso(peak_time(flare_index))]_vars

\* a flare has gone through the reuse branch and on to its parameterization
\* with the baseline of the flare before it
C20_Witness ==
  /\ pc = "parameterize"
  /\ flare_index >= 2
  /\ Gap(flare_index) <= threshold_time_prior_flare_minutes
  /\ preflare_window_end = Iso(peak_time(flare_index - 1))
  /\ preflare_irradiance.kind = "list"

\* C21 (as stated): the window check of a flare that has a next flare ends in
\* the skip if and only if the flare's window in minutes is strictly below the
\* minimum: then the step appends this flare's row, calls no routine and moves
\* to the next flare, so that the row is in the file once; otherwise, a window
\* equal to the minimum included, the flare goes on to normalization and
\* nothing is written.
C21_SkippedIffShort ==
  [][(pc = "bracket" /\ flare_index <= num_flares - 2) =>
       IF WindowMinutes(flare_index) < threshold_minimum_dimming_window_minutes
       THEN /\ pc' = "loop"
            /\ flare_index' = flare_index + 1
            /\ calls' = calls
            /\ Len(csv_file') = Len(csv_file) + 1
            /\ IsFlareRow(csv_file'[Len(csv_file')], flare_index)
            /\ Cardinality({k \in DOMAIN csv_file' :
                              IsFlareRow(csv_file'[k], flare_index)}) = 1
       ELSE /\ pc' = "normalize"
            /\ csv_file' = csv_file]_vars

\* the baseline a recomputation at flare j gives: values, window start and end
FreshBaseline(j) ==
  [values |-> [c \in ChannelLabels |-> determine_preflare_irradiance(j, c)],
   start |-> Iso(Time(peak_time(j).t - threshold_time_prior_flare_minutes)),
   end |-> Iso(peak_time(j))]
RowHasBaseline(row, b) ==
  /\ row.pf_irradiance = b.values
  /\ row.pf_start = b.start
  /\ row.pf_end = b.end
Short(i) == WindowMinutes(i) < threshold_minimum_dimming_window_minutes

\* C22: the baseline is resolved before the window check: the row of a flare
\* skipped for its short window, its gap above the threshold, carries the
\* baseline computed for this flare; that baseline is the carried one when the
\* loop moves on; and the row of the next flare, its gap at or below the
\* threshold, carries the skipped flare's baseline values and bounds.
C22_SkippedFlareRenewsBaseline ==
  \A i \in 1..(num_flares - 2) :
    (Short(i) /\ Gap(i) > threshold_time_prior_flare_minutes) =>
      /\ \A k \in RowsOfFlare(i) : RowHasBaseline(csv_file[k].cells, FreshBaseline(i))
      /\ (RowsOfFlare(i) # {} /\ flare_index = i + 1 /\ pc \in {"loop", "baseline"}
            /\ Running) =>
           /\ preflare_irradiance.kind = "list"
           /\ \A k \in 1..NumChannels :
                preflare_irradiance.v[k] = FreshBaseline(i).values[eve_lines_columns[k]]
           /\ preflare_window_start = FreshBaseline(i).start
           /\ preflare_window_end = FreshBaseline(i).end
      /\ (i + 1 <= num_flares - 2 /\ Gap(i + 1) <= threshold_time_prior_flare_minutes) =>
           \A k \in RowsOfFlare(i + 1) :
             RowHasBaseline(csv_file[k].cells, FreshBaseline(i))

\* a skipped flare took a new baseline and the next flare's row reuses it
C22_Witness ==
  \E i \in 1..(num_flares - 3) :
    /\ Short(i)
    /\ Gap(i) > threshold_time_prior_flare_minutes
    /\ Gap(i + 1) <= threshold_time_prior_flare_minutes
    /\ RowsOfFlare(i) # {}
    /\ \E k \in RowsOfFlare(i + 1) :
         /\ csv_file[k].cells.pf_end = Iso(peak_time(i))
         /\ \A l \in Labels : MetricsMissing(csv_file[k].cells, l)

\* was the routine called for this column earlier in the log than position k
CalledBefore(log, k, routine, label) ==
  \E j \in 1..(k - 1) : log[j].routine = routine /\ log[j].col = label
IsParameterization(routine) ==
  routine \in {"determine_dimming_depth", "determine_dimming_slope",
               "determine_dimming_duration"}

\* C23: in the calls made for the flare in progress, every series handed to
\* the depth, slope or duration finder is the fit of this flare for that
\* column, made earlier in this flare; every pair series handed to the fit is
\* the corrected series of this flare, its correction called earlier in this
\* flare, and every channel series handed to the fit is this flare's
\* normalized window; the windowed frame has a pair column only if the
\* correction was called for that pair in this flare.
C23_OnlyThisFlaresSeries ==
  pc \in {"correct", "fit", "parameterize"} =>
    /\ \A k \in DOMAIN calls :
         /\ IsParameterization(calls[k].routine) =>
              /\ calls[k].args[1].stage = "fitted"
              /\ calls[k].args[1].flare = flare_index
              /\ CalledBefore(calls, k, "automatic_fit_coronal_dimming_light_curve",
                              calls[k].col)
         /\ calls[k].routine = "automatic_fit_coronal_dimming_light_curve" =>
              /\ calls[k].args[1].flare = flare_index
              /\ IF calls[k].col \in PairLabels
                 THEN /\ calls[k].args[1].stage = "corrected"
                      /\ CalledBefore(calls, k, "light_curve_peak_match_subtract",
                                      calls[k].col)
                 ELSE calls[k].args[1].stage = "percent"
    /\ \A p \in PairLabels :
         HasColumn(eve_lines_event, p) =>
           Called(calls, "light_curve_peak_match_subtract", p)

\* in a second processed flare, one with a channel entirely missing, the
\* channel that has data was fitted and is being parameterized
C23_Witness ==
  /\ pc = "parameterize"
  /\ flare_index = 2
  /\ eve_window.missing # {}
  /\ \E k \in RowsOfFlare(1) : \E p \in PairLabels :
       csv_file[k].cells.line[p]["Fitting Gamma"] # NaN
  /\ \E k \in DOMAIN calls : IsParameterization(calls[k].routine)

\* the normalized window of a channel in the flare in progress
NormalizedSeries(c) == Series(c \in eve_window.missing, "percent", flare_index)

\* C24: every call of the correction routine gets the normalized series of its
\* two channels, as the normalization left them, and all through the
\* correction loop every channel column of the windowed frame is still that
\* series: no correction replaces a channel's series.
C24_CorrectionsReadNormalizedChannels ==
  pc \in {"correct", "fit", "parameterize"} =>
    /\ \A k \in DOMAIN calls :
         calls[k].routine = "light_curve_peak_match_subtract" =>
           /\ \E t \in DOMAIN ion_tuples :
                /\ calls[k].args[1].of = <<ion_tuples[t][1]>>
                /\ calls[k].args[2].of = <<ion_tuples[t][2]>>
           /\ calls[k].args[1].irradiance = NormalizedSeries(calls[k].args[1].of)
           /\ calls[k].args[2].irradiance = NormalizedSeries(calls[k].args[2].of)
    /\ pc = "correct" =>
         \A c \in ChannelLabels : SeriesOf(eve_lines_event, c) = NormalizedSeries(c)

\* the second pair of a flare is about to be corrected, the first one done
C24_Witness ==
  /\ pc = "correct"
  /\ Running
  /\ loop_i = Len(ion_tuples)
  /\ eve_window.missing = {}
  /\ Called(calls, "light_curve_peak_match_subtract", ion_permutations[1])
  /\ HasColumn(eve_lines_event, ion_permutations[1])

============================================================================
